---- MODULE Spec2Model ----
(***************************************************************************)
(* plugins:inspect (src/commands/plugins/inspect.ts): the dependency       *)
(* resolution walker findDep and the report builder inspect.               *)
(*                                                                         *)
(* A JavaScript string is a sequence of one-character strings, so that     *)
(* split, join, the /node_modules/g match count and the string comparison  *)
(* of the sort are computed on characters.  Paths are POSIX paths          *)
(* (path.sep = "/").                                                       *)
(***************************************************************************)
EXTENDS Integers, Sequences, FiniteSets, TLC

VARIABLES
  plugin,          \* the Plugin found by findPlugin: name, version, root, pjson.dependencies, commandIDs
  verbose,         \* inspect's verbose argument
  fs,              \* the filesystem: manifest path -> file state
  pc,              \* position of the running call
  caller,          \* who awaits findDep: "inspect" or "none" (a direct call)
  dependency,      \* findDep's argument
  dependencyPath,  \* findDep local
  start,           \* findDep local
  paths,           \* findDep local: the search chain
  tried,           \* findDep: number of entries of paths the for loop has finished with
  ret,             \* the value findDep resolved with
  tree,            \* the ux.tree under the plugin header
  deps,            \* inspect local: sorted dependency names
  next,            \* inspect: number of entries of deps the for loop has finished with
  depsJson,        \* inspect local: the flat record, in insertion order
  result           \* the value inspect resolved with

vars == <<plugin, verbose, fs, pc, caller, dependency, dependencyPath, start, paths,
          tried, ret, tree, deps, next, depsJson, result>>

findDepVars == <<dependency, dependencyPath, start, paths, tried, ret>>
inspectVars == <<tree, deps, next, depsJson, result>>

----------------------------------------------------------------------------
(* JavaScript values *)

null == <<"null">>            \* not a string: its one element is not a character
undefined == <<"undefined">>  \* likewise

\* !v
Falsy(v) == v = null \/ v = undefined \/ v = <<>>

----------------------------------------------------------------------------
(* String and path primitives (String.prototype, node:path posix) *)

sep == "/"

node_modules == <<"n","o","d","e","_","m","o","d","u","l","e","s">>

package_json == <<"p","a","c","k","a","g","e",".","j","s","o","n">>

RECURSIVE splitFrom(_, _, _, _)
splitFrom(s, c, i, cur) ==
  IF i > Len(s) THEN <<cur>>
  ELSE IF s[i] = c THEN <<cur>> \o splitFrom(s, c, i + 1, <<>>)
  ELSE splitFrom(s, c, i + 1, Append(cur, s[i]))

\* s.split(c)
split(s, c) == splitFrom(s, c, 1, <<>>)

RECURSIVE join(_, _)
\* parts.join(c)
join(parts, c) ==
  IF Len(parts) = 0 THEN <<>>
  ELSE IF Len(parts) = 1 THEN parts[1]
  ELSE parts[1] \o <<c>> \o join(Tail(parts), c)

\* whether pat occurs in s at position i
occursAt(s, pat, i) ==
  /\ i + Len(pat) - 1 <= Len(s)
  /\ \A j \in 1..Len(pat) : s[i + j - 1] = pat[j]

RECURSIVE matchCountFrom(_, _, _)
matchCountFrom(s, pat, i) ==
  IF i > Len(s) THEN 0
  ELSE IF occursAt(s, pat, i) THEN 1 + matchCountFrom(s, pat, i + Len(pat))
  ELSE matchCountFrom(s, pat, i + 1)

\* (s.match(/pat/g) || []).length
matchCount(s, pat) == matchCountFrom(s, pat, 1)

\* the components path.normalize keeps ("" and "." are dropped; no ".." occurs here)
keptParts(parts) == SelectSeq(parts, LAMBDA e : e # <<>> /\ e # <<".">>)

\* path.join(...args): the non-empty arguments joined by "/" and normalized
pathJoin(args) ==
  LET joined == join(SelectSeq(args, LAMBDA a : a # <<>>), sep)
      body == join(keptParts(split(joined, sep)), sep)
  IN IF joined = <<>> THEN <<".">>
     ELSE IF joined[1] = sep THEN <<sep>> \o body
     ELSE IF body = <<>> THEN <<".">>
     ELSE body

\* path.dirname(p): the characters before the last "/" (not the first character)
\* that has a character other than "/" somewhere after it
dirname(p) ==
  IF Len(p) = 0 THEN <<".">>
  ELSE LET cut == {i \in 2..Len(p) : p[i] = sep /\ \E j \in (i + 1)..Len(p) : p[j] # sep}
           end == CHOOSE i \in cut : \A j \in cut : j <= i
       IN IF cut = {} THEN (IF p[1] = sep THEN <<sep>> ELSE <<".">>)
          ELSE IF p[1] = sep /\ end = 2 THEN <<sep, sep>>
          ELSE SubSeq(p, 1, end - 1)

----------------------------------------------------------------------------
(* trimUntil *)

\* the (0-based) indices i of parts with parts[i] === part
indicesOf(parts, part) == {i - 1 : i \in {j \in 1..Len(parts) : parts[j] = part}}

\* parts.slice(0, end)
sliceTo(parts, end) == SubSeq(parts, 1, IF end < Len(parts) THEN end ELSE Len(parts))

\* Math.max(...[]) is -Infinity, so partIndex === -1 is false when no component
\* equals part, and parts.slice(0, -Infinity + 1) is [], which joins to "".
trimUntil(fsPath, part) ==
  LET parts == split(fsPath, sep)
      indices == indicesOf(parts, part)
      partIndex == CHOOSE i \in indices : \A j \in indices : j <= i
  IN IF indices = {} THEN join(<<>>, sep)
     ELSE IF partIndex = -1 THEN fsPath
     ELSE join(sliceTo(parts, partIndex + 1), sep)

----------------------------------------------------------------------------
(* The filesystem and the manifests *)

\* readFile rejects with a system error
Fault(code) == [err |-> code, text |-> ""]
\* readFile resolves with the file's text
File(text) == [err |-> "none", text |-> text]

V120 == <<"1",".","2",".","0">>
V200 == <<"2",".","0",".","0">>

MalformedText == "{ \"version\": "
NullText == "null"
NoVersionText == "{\"name\":\"pkg\"}"
EmptyVersionText == "{\"name\":\"pkg\",\"version\":\"\"}"
V120Text == "{\"name\":\"pkg\",\"version\":\"1.2.0\"}"
V200Text == "{\"name\":\"pkg\",\"version\":\"2.0.0\"}"

pkgName == <<"p","k","g">>

\* JSON.parse(text) on the texts above: a SyntaxError, null or an object
JSON_parse(text) ==
  CASE text = NullText -> [threw |-> FALSE, type |-> "null", props |-> <<>>]
    [] text = NoVersionText -> [threw |-> FALSE, type |-> "object", props |-> [name |-> pkgName]]
    [] text = EmptyVersionText ->
         [threw |-> FALSE, type |-> "object", props |-> [name |-> pkgName, version |-> <<>>]]
    [] text = V120Text ->
         [threw |-> FALSE, type |-> "object", props |-> [name |-> pkgName, version |-> V120]]
    [] text = V200Text ->
         [threw |-> FALSE, type |-> "object", props |-> [name |-> pkgName, version |-> V200]]
    [] OTHER -> [threw |-> TRUE, type |-> "SyntaxError", props |-> <<>>]

\* obj.key of an object
Get(props, key) == IF key \in DOMAIN props THEN props[key] ELSE undefined

\* await readFile(p, 'utf8'): a path the filesystem does not hold is absent
readFile(files, p) == IF p \in DOMAIN files THEN files[p] ELSE Fault("ENOENT")

----------------------------------------------------------------------------
(* findDep *)

\* path.join(...dependency.split('/'))
dependencyPathOf(dep) == pathJoin(split(dep, sep))

\* a loop that climbs while any marker is left
climbsWhileAny(s) == matchCount(s, node_modules) > 0

\* the while condition
climbs(s) == matchCount(s, node_modules) > 1

\* a body that leaves the enclosing node_modules and appends the marker again
climbToParentModules(s) == pathJoin(<<dirname(trimUntil(dirname(s), node_modules)), node_modules>>)

\* the while body's new start
climbTo(s) == trimUntil(dirname(s), node_modules)

RECURSIVE chainFrom(_)
chainFrom(s) == IF climbs(s) THEN <<s>> \o chainFrom(climbTo(s)) ELSE <<s>>

\* paths after the while loop
searchChain(root) == chainFrom(pathJoin(<<root, node_modules>>))

\* a loop that walks the chain from its outermost entry
forOfReversed(list, done) == list[Len(list) - done]

\* the entry of paths the for...of loop takes after `done` entries
forOf(list, done) == list[done + 1]

fullPathOf(p, depPath) == pathJoin(<<p, depPath>>)

pkgJsonPathOf(p, depPath) == pathJoin(<<fullPathOf(p, depPath), package_json>>)

\* a catch that rethrows what is not ENOENT
caughtOnlyAbsent(error) == error = "ENOENT"

\* a try block that starts after JSON.parse
caughtOnlyReadErrors(error) == error \in {"ENOENT", "EACCES"}

\* catch { } has no binding and no rethrow: it catches every error
caught(error) == TRUE

\* the try block for the container p: the error it throws, or the value returned
tryBlock(files, p, depPath) ==
  LET file == readFile(files, pkgJsonPathOf(p, depPath))
      pkgJson == JSON_parse(file.text)
  IN IF file.err # "none" THEN [threw |-> TRUE, error |-> file.err, value |-> <<>>]
     ELSE IF pkgJson.threw THEN [threw |-> TRUE, error |-> "SyntaxError", value |-> <<>>]
     ELSE IF pkgJson.type = "null" THEN [threw |-> TRUE, error |-> "TypeError", value |-> <<>>]
     ELSE [threw |-> FALSE, error |-> "none",
           value |-> [pkgPath |-> fullPathOf(p, depPath),
                      version |-> Get(pkgJson.props, "version")]]

notFound == [pkgPath |-> null, version |-> null]

\* what a finished findDep hands to whoever awaits it
Return(value) ==
  /\ ret' = value
  /\ pc' = IF caller = "inspect" THEN "inspect_resume" ELSE "done"

\* lines 50-52
findDep_enter ==
  /\ pc = "findDep"
  /\ dependencyPath' = dependencyPathOf(dependency)
  /\ start' = pathJoin(<<plugin.root, node_modules>>)
  /\ paths' = <<pathJoin(<<plugin.root, node_modules>>)>>
  /\ tried' = 0
  /\ pc' = "findDep_while"
  /\ UNCHANGED <<plugin, verbose, fs, caller, dependency, ret>>
  /\ UNCHANGED inspectVars

\* one evaluation of the while condition and, when it holds, of the body
findDep_while ==
  /\ pc = "findDep_while"
  /\ IF climbs(start)
     THEN /\ start' = climbTo(start)
          /\ paths' = Append(paths, start')
          /\ pc' = pc
     ELSE /\ pc' = "findDep_for"
          /\ UNCHANGED <<start, paths>>
  /\ UNCHANGED <<plugin, verbose, fs, caller, dependency, dependencyPath, tried, ret>>
  /\ UNCHANGED inspectVars

\* one iteration of the for loop, or the return after it
findDep_for ==
  /\ pc = "findDep_for"
  /\ IF tried = Len(paths)
     THEN Return(notFound) /\ UNCHANGED tried
     ELSE LET try == tryBlock(fs, forOf(paths, tried), dependencyPath)
          IN IF ~try.threw THEN Return(try.value) /\ UNCHANGED tried
             ELSE IF caught(try.error) THEN tried' = tried + 1 /\ UNCHANGED <<pc, ret>>
             ELSE pc' = "rejected" /\ UNCHANGED <<tried, ret>>
  /\ UNCHANGED <<plugin, verbose, fs, caller, dependency, dependencyPath, start, paths>>
  /\ UNCHANGED inspectVars

----------------------------------------------------------------------------
(* sortBy (util.js) and the string comparison it uses *)

Letters == <<"a","b","c","d","e","f","g","h","i","j","k","l","m",
             "n","o","p","q","r","s","t","u","v","w","x","y","z">>

\* c.charCodeAt(0) for the characters of package names and command ids
charCode(c) ==
  CASE c = "-" -> 45 [] c = "." -> 46 [] c = "/" -> 47 [] c = ":" -> 58
    [] c = "@" -> 64 [] c = "_" -> 95
    [] OTHER -> 96 + (CHOOSE i \in 1..Len(Letters) : Letters[i] = c)

RECURSIVE lessFrom(_, _, _)
lessFrom(a, b, i) ==
  IF i > Len(b) THEN FALSE
  ELSE IF i > Len(a) THEN TRUE
  ELSE IF charCode(a[i]) < charCode(b[i]) THEN TRUE
  ELSE IF charCode(a[i]) > charCode(b[i]) THEN FALSE
  ELSE lessFrom(a, b, i + 1)

\* a < b on strings
less(a, b) == lessFrom(a, b, 1)

RECURSIVE insertSorted(_, _)
insertSorted(sorted, e) ==
  IF Len(sorted) = 0 THEN <<e>>
  ELSE IF less(e, Head(sorted)) THEN <<e>> \o sorted
  ELSE <<Head(sorted)>> \o insertSorted(Tail(sorted), e)

RECURSIVE sortBy(_)
\* sortBy(arr, (x) => x): arr in ascending order
sortBy(arr) == IF Len(arr) = 0 THEN <<>> ELSE insertSorted(sortBy(Tail(arr)), Head(arr))

----------------------------------------------------------------------------
(* inspect *)

W_version == <<"v","e","r","s","i","o","n">>
W_tag == <<"t","a","g">>
W_homepage == <<"h","o","m","e","p","a","g","e">>
W_location == <<"l","o","c","a","t","i","o","n">>
W_commands == <<"c","o","m","m","a","n","d","s">>
W_dependencies == <<"d","e","p","e","n","d","e","n","c","i","e","s">>
W_arrow == <<" ","=",">"," ">>
SP == <<" ">>

\* tree.insert(label): nodes[label] = new Tree(), keys in insertion order
insert(children, label) ==
  IF \E i \in 1..Len(children) : children[i] = label THEN children ELSE Append(children, label)

RECURSIVE insertAll(_, _)
insertAll(children, labels) ==
  IF Len(labels) = 0 THEN children
  ELSE insertAll(insert(children, Head(labels)), Tail(labels))

\* Object.keys(dependencies)
keys(dependencies) == [i \in 1..Len(dependencies) |-> dependencies[i].name]

\* dependencies[dep]
lookup(dependencies, dep) ==
  IF \E i \in 1..Len(dependencies) : dependencies[i].name = dep
  THEN dependencies[CHOOSE i \in 1..Len(dependencies) : dependencies[i].name = dep].range
  ELSE undefined

\* x ?? null
orNull(x) == IF x = undefined \/ x = null THEN null ELSE x

\* sortBy(plugin.commandIDs, (c) => c)
sortedCommands(commandIDs) == sortBy(commandIDs)

\* the keys in declaration order
unsortedDeps(dependencies) == keys(dependencies)

\* sortBy(Object.keys(dependencies), (d) => d)
sortedDeps(dependencies) == sortBy(keys(dependencies))

\* the nodes inserted under the plugin header, lines 93-98 and 104
headerNodes(p) ==
  <<W_version \o SP \o p.version>>
  \o (IF Falsy(p.tag) THEN <<>> ELSE <<W_tag \o SP \o p.tag>>)
  \o (IF Falsy(p.homepage) THEN <<>> ELSE <<W_homepage \o SP \o p.homepage>>)
  \o <<W_location \o SP \o p.root, W_commands, W_dependencies>>

\* a loop without the continue
neverSkips(version) == FALSE

\* if (!version) continue
skips(version) == Falsy(version)

\* from ? `${from} => ${version}` : version
versionMsgOf(from, version) == IF Falsy(from) THEN version ELSE from \o W_arrow \o version

\* verbose ? `${dep} ${versionMsg} ${pkgPath}` : `${dep} ${versionMsg}`
msgOf(dep, from, version, pkgPath, v) ==
  IF v THEN dep \o SP \o versionMsgOf(from, version) \o SP \o pkgPath
  ELSE dep \o SP \o versionMsgOf(from, version)

\* an entry that repeats the declared range as the version
depsEntryOfRange(from, version, pkgPath) == [from |-> from, version |-> from]

\* the value stored at depsJson[dep]
depsEntry(from, version, pkgPath) == [from |-> from, version |-> version]

\* depsJson[dep] = value: a new key is appended, an old one keeps its place
setKey(obj, key, value) ==
  IF \E i \in 1..Len(obj) : obj[i].key = key
  THEN [i \in 1..Len(obj) |-> IF obj[i].key = key THEN [key |-> key, value |-> value] ELSE obj[i]]
  ELSE Append(obj, [key |-> key, value |-> value])

\* lines 89-106
inspect_begin ==
  /\ pc = "inspect"
  /\ tree' = [nodes |-> headerNodes(plugin),
              commands |-> insertAll(<<>>, sortedCommands(plugin.commandIDs)),
              dependencies |-> <<>>]
  /\ deps' = sortedDeps(plugin.dependencies)
  /\ depsJson' = <<>>
  /\ next' = 0
  /\ pc' = "inspect_for"
  /\ UNCHANGED <<plugin, verbose, fs, caller, result>>
  /\ UNCHANGED findDepVars

\* line 109, the call: this.findDep(plugin, dep)
inspect_call ==
  /\ pc = "inspect_for"
  /\ next < Len(deps)
  /\ dependency' = forOf(deps, next)
  /\ pc' = "findDep"
  /\ UNCHANGED <<plugin, verbose, fs, caller, dependencyPath, start, paths, tried, ret>>
  /\ UNCHANGED inspectVars

\* lines 109-117, after the await
inspect_resume ==
  /\ pc = "inspect_resume"
  /\ LET dep == forOf(deps, next)
         from == orNull(lookup(plugin.dependencies, dep))
     IN IF skips(ret.version)
        THEN UNCHANGED <<tree, depsJson>>
        ELSE /\ tree' = [tree EXCEPT !.dependencies =
                           insert(@, msgOf(dep, from, ret.version, ret.pkgPath, verbose))]
             /\ depsJson' = setKey(depsJson, dep, depsEntry(from, ret.version, ret.pkgPath))
  /\ next' = next + 1
  /\ pc' = "inspect_for"
  /\ UNCHANGED <<plugin, verbose, fs, caller, deps, result>>
  /\ UNCHANGED findDepVars

\* lines 120-122
inspect_return ==
  /\ pc = "inspect_for"
  /\ next = Len(deps)
  /\ result' = [plugin |-> plugin, deps |-> depsJson]
  /\ pc' = "done"
  /\ UNCHANGED <<plugin, verbose, fs, caller, tree, deps, next, depsJson>>
  /\ UNCHANGED findDepVars

----------------------------------------------------------------------------
(* Inputs *)

MaxDeps == 2

bar == <<"b","a","r">>
baz == <<"b","a","z">>
scoped_bar == <<"@","s","/","b","a","r">>
DepNames == {bar, baz, scoped_bar}

\* the range package.json declares for a dependency
declaredRange(dep) ==
  CASE dep = bar -> <<"^","1",".","0",".","0">>
    [] dep = baz -> <<>>
    [] OTHER -> <<"~","2",".","0",".","0">>

CommandIDs == {<<"f","o","o",":","r","u","n">>, <<"e","n","v">>}

plugins_foo == <<"/","p","l","u","g","i","n","s","/","f","o","o">>
plugins_nm_foo == <<"/","p","l","u","g","i","n","s","/">> \o node_modules \o <<"/","f","o","o">>
plugins_nm_old_foo ==
  <<"/","p","l","u","g","i","n","s","/">> \o node_modules \o <<"_","o","l","d","/","f","o","o">>
plugins_nm_a_nm_foo ==
  <<"/","p","l","u","g","i","n","s","/">> \o node_modules \o <<"/","a","/">>
  \o node_modules \o <<"/","f","o","o">>
plugins_nm == <<"/","p","l","u","g","i","n","s","/">> \o node_modules

Roots == {plugins_foo, plugins_nm_foo, plugins_nm_old_foo, plugins_nm_a_nm_foo}
InspectRoots == {plugins_foo, plugins_nm_foo}

FileStates ==
  {Fault("EACCES"), File(MalformedText), File(NullText), File(NoVersionText),
   File(EmptyVersionText), File(V120Text), File(V200Text)}

\* the sequences of at most n distinct elements of S
Arrangements(S, n) ==
  {s \in UNION {[1..k -> S] : k \in 0..n} : \A i, j \in DOMAIN s : i # j => s[i] # s[j]}

\* the filesystems that hold some of the files of universe, each in some state
Filesystems(universe) == UNION {[D -> FileStates] : D \in SUBSET universe}

Elems(seq) == {seq[i] : i \in DOMAIN seq}

RECURSIVE manifestsAlong(_, _)
\* the manifests findDep looks at for a dependency, in the order of the chain
manifestsAlong(chain, depPath) ==
  IF Len(chain) = 0 THEN <<>>
  ELSE <<pkgJsonPathOf(Head(chain), depPath)>> \o manifestsAlong(Tail(chain), depPath)

\* the manifest of a dependency in the node_modules of the root's parent directory,
\* where a package manager hoists it, unless that directory is itself a node_modules
hoistedManifest(root, depPath) ==
  LET parent == split(dirname(root), sep)
  IN IF parent[Len(parent)] = node_modules THEN {}
     ELSE {pkgJsonPathOf(pathJoin(<<dirname(root), node_modules>>), depPath)}

\* for every root and dependency, the manifests that decide where it resolves
ManifestTable ==
  {[root |-> r, dep |-> d,
    chain |-> manifestsAlong(searchChain(r), dependencyPathOf(d)),
    hoisted |-> hoistedManifest(r, dependencyPathOf(d))] : r \in Roots, d \in DepNames}

manifestsOf(r, d) == CHOOSE t \in ManifestTable : t.root = r /\ t.dep = d

\* how one dependency of a plugin is installed
Layouts == {"absent", "nested", "hoisted", "denied", "noVersion"}

\* the files of one dependency whose manifests along the search chain are given
layoutFiles(layout, manifests) ==
  LET inner == manifests[1]
      outer == manifests[Len(manifests)]
  IN CASE layout = "nested" -> inner :> File(V120Text)
       [] layout = "hoisted" -> outer :> File(V200Text)
       [] layout = "denied" -> (inner :> Fault("EACCES")) @@ (outer :> File(V200Text))
       [] layout = "noVersion" -> inner :> File(NoVersionText)
       [] OTHER -> <<>>

\* the filesystem in which names[i] is installed as layouts[i] says
installed(root, names, layouts) ==
  LET files == [i \in DOMAIN names |-> layoutFiles(layouts[i], manifestsOf(root, names[i]).chain)]
  IN [p \in UNION {DOMAIN files[i] : i \in DOMAIN names} |->
        files[CHOOSE i \in DOMAIN names : p \in DOMAIN files[i]][p]]

Plugin(root, names, commandIDs) ==
  [name |-> <<"f","o","o">>, version |-> <<"1",".","0",".","0">>,
   tag |-> undefined, homepage |-> undefined, root |-> root,
   dependencies |-> [i \in DOMAIN names |-> [name |-> names[i], range |-> declaredRange(names[i])]],
   commandIDs |-> commandIDs]

emptyTree == [nodes |-> <<>>, commands |-> <<>>, dependencies |-> <<>>]

Idle ==
  /\ dependencyPath = <<>> /\ start = <<>> /\ paths = <<>> /\ tried = 0 /\ ret = notFound
  /\ tree = emptyTree /\ deps = <<>> /\ next = 0 /\ depsJson = <<>>
  /\ result = [plugin |-> plugin, deps |-> <<>>]

\* run awaits inspect(pluginName, flags.verbose) for a plugin findPlugin found
Init ==
  /\ \E r \in InspectRoots, n \in Arrangements(DepNames, MaxDeps),
        c \in Arrangements(CommandIDs, Cardinality(CommandIDs)) :
       /\ plugin = Plugin(r, n, c)
       /\ \E l \in [DOMAIN n -> Layouts] : fs = installed(r, n, l)
  /\ verbose \in BOOLEAN
  /\ pc = "inspect"
  /\ caller = "inspect"
  /\ dependency = <<>>
  /\ Idle

\* a direct call findDep(plugin, dependency)
InitFindDep ==
  /\ \E r \in Roots, d \in DepNames :
       /\ plugin = Plugin(r, <<d>>, <<>>)
       /\ fs \in Filesystems(Elems(manifestsOf(r, d).chain) \cup manifestsOf(r, d).hoisted)
  /\ verbose = FALSE
  /\ pc = "findDep"
  /\ caller = "none"
  /\ dependency = plugin.dependencies[1].name
  /\ Idle

Next ==
  \/ inspect_begin
  \/ inspect_call
  \/ findDep_enter
  \/ findDep_while
  \/ findDep_for
  \/ inspect_resume
  \/ inspect_return

NextFindDep ==
  \/ findDep_enter
  \/ findDep_while
  \/ findDep_for

Spec == Init /\ [][Next]_vars

SpecFindDep == InitFindDep /\ [][NextFindDep]_vars

----------------------------------------------------------------------------
(* What the properties speak of, read off the filesystem *)

\* the state of the file at p
stateOf(p) == IF p \in DOMAIN fs THEN fs[p] ELSE [err |-> "ENOENT", text |-> ""]

\* the file at p exists and parses as a manifest object
IsManifest(p) ==
  /\ stateOf(p).err = "none"
  /\ stateOf(p).text \in {NoVersionText, EmptyVersionText, V120Text, V200Text}

\* the file at p exists and does not parse as structured data
IsMalformed(p) == stateOf(p).err = "none" /\ stateOf(p).text \in {MalformedText, NullText}

IsAbsent(p) == stateOf(p).err = "ENOENT"

IsDenied(p) == stateOf(p).err = "EACCES"

\* the version field of the manifest at p
versionField(p) ==
  CASE stateOf(p).text = V120Text -> V120
    [] stateOf(p).text = V200Text -> V200
    [] stateOf(p).text = EmptyVersionText -> <<>>
    [] OTHER -> undefined

\* the directory of the manifest m: m without "/package.json"
installDirOf(m) == SubSeq(m, 1, Len(m) - Len(package_json) - 1)

Min(S) == CHOOSE k \in S : \A j \in S : k <= j

\* the places of the chain of manifests ms that hold a manifest
hits(ms) == {k \in DOMAIN ms : IsManifest(ms[k])}

\* the innermost manifest of ms, as a result
Innermost(ms) ==
  IF hits(ms) = {} THEN [pkgPath |-> null, version |-> null]
  ELSE [pkgPath |-> installDirOf(ms[Min(hits(ms))]), version |-> versionField(ms[Min(hits(ms))])]

\* the manifests of the chain the running findDep built
tried_manifests == [k \in DOMAIN paths |-> pkgJsonPathOf(paths[k], dependencyPath)]

\* the manifests of the chain for a declared dependency of the plugin
manifestsFor(d) == manifestsOf(plugin.root, d).chain

Declared == Elems(keys(plugin.dependencies))

StartsWith(str, prefix) == Len(str) >= Len(prefix) /\ SubSeq(str, 1, Len(prefix)) = prefix

\* the dependency nodes of the hierarchy for d
nodesOf(d) == {i \in DOMAIN tree.dependencies : StartsWith(tree.dependencies[i], d \o SP)}

\* the entries of the flat record obj for d
entriesOf(obj, d) == {i \in DOMAIN obj : obj[i].key = d}

\* the number of path components of p equal to the marker
markerComponents(p) == Cardinality({i \in DOMAIN split(p, sep) : split(p, sep)[i] = node_modules})

firstCandidate == pathJoin(<<plugin.root, node_modules>>)

bar_manifest_in(dir) == dir \o <<sep>> \o bar \o <<sep>> \o package_json

----------------------------------------------------------------------------
(* C1 *)

\* C1: when two or more containers of the chain hold a parseable manifest, findDep
\* returns the path and the version of the first of them in chain order.
C1_InnermostWins ==
  (pc = "done" /\ Cardinality(hits(tried_manifests)) >= 2)
    => /\ ret.pkgPath = fullPathOf(paths[Min(hits(tried_manifests))], dependencyPath)
       /\ ret.version = versionField(tried_manifests[Min(hits(tried_manifests))])

C1_Witness ==
  /\ pc = "done"
  /\ Len(paths) = 3
  /\ hits(tried_manifests) = {2, 3}
  /\ versionField(tried_manifests[2]) = V120
  /\ versionField(tried_manifests[3]) = V200
  /\ ret.version = V120

----------------------------------------------------------------------------
(* C2 *)

\* C2 as claimed: for the root /plugins/foo with no manifest at
\* /plugins/foo/node_modules/bar and a valid one at /plugins/node_modules/bar,
\* findDep returns /plugins/node_modules/bar and its version.
C2_HoistedOneLevelUp ==
  (/\ pc = "done"
   /\ plugin.root = plugins_foo
   /\ dependency = bar
   /\ IsAbsent(bar_manifest_in(plugins_foo \o <<sep>> \o node_modules))
   /\ stateOf(bar_manifest_in(plugins_nm)).text \in {V120Text, V200Text})
    => /\ ret.pkgPath = plugins_nm \o <<sep>> \o bar
       /\ ret.version = versionField(bar_manifest_in(plugins_nm))

\* C2 amended: for the root /plugins/foo the chain is the one container
\* /plugins/foo/node_modules, and with no manifest there findDep returns no path
\* and no version whatever /plugins/node_modules/bar holds; the copy at
\* /plugins/node_modules/bar is returned when the root is /plugins/node_modules/foo.
C2_HoistedOnlyInsideModulesDir ==
  (pc = "done" /\ dependency = bar)
    => /\ (plugin.root = plugins_foo /\ IsAbsent(bar_manifest_in(plugins_foo \o <<sep>> \o node_modules)))
            => /\ paths = <<plugins_foo \o <<sep>> \o node_modules>>
               /\ ret = [pkgPath |-> null, version |-> null]
       /\ (/\ plugin.root = plugins_nm_foo
           /\ IsAbsent(bar_manifest_in(plugins_nm_foo \o <<sep>> \o node_modules))
           /\ stateOf(bar_manifest_in(plugins_nm)).text \in {V120Text, V200Text})
            => /\ ret.pkgPath = plugins_nm \o <<sep>> \o bar
               /\ ret.version = versionField(bar_manifest_in(plugins_nm))

C2_Witness ==
  /\ pc = "done"
  /\ plugin.root = plugins_foo
  /\ dependency = bar
  /\ IsAbsent(bar_manifest_in(plugins_foo \o <<sep>> \o node_modules))
  /\ stateOf(bar_manifest_in(plugins_nm)).text = V120Text
  /\ ret.pkgPath = null

----------------------------------------------------------------------------
(* C4 *)

\* C4: a manifest that exists but does not parse never makes findDep reject and
\* never ends the search: with an unparseable manifest in the chain and no manifest
\* before it, findDep returns the first manifest after it, or nothing when there is none.
C4_MalformedSkipped ==
  /\ pc # "rejected"
  /\ pc = "done" =>
       \A k \in DOMAIN paths :
         (IsMalformed(tried_manifests[k]) /\ \A j \in 1..k : j \notin hits(tried_manifests))
           => /\ ret = Innermost(tried_manifests)
              /\ ret.pkgPath # null => \E j \in (k + 1)..Len(paths) :
                                         ret.pkgPath = fullPathOf(paths[j], dependencyPath)

C4_Witness ==
  /\ pc = "done"
  /\ Len(paths) = 2
  /\ stateOf(tried_manifests[1]).text = MalformedText
  /\ stateOf(tried_manifests[2]).text = V200Text
  /\ ret = [pkgPath |-> fullPathOf(paths[2], dependencyPath), version |-> V200]

----------------------------------------------------------------------------
(* C8 *)

\* C8 as claimed: when exactly one path component of <root>/node_modules equals
\* the marker, the loop body never runs and the chain is the initial candidate alone.
C8_SingleEntryChain ==
  (pc \in {"findDep_while", "findDep_for", "done"} /\ markerComponents(firstCandidate) = 1)
    => paths = <<firstCandidate>>

----------------------------------------------------------------------------
(* C9 *)

\* the steps findDep has left, at most
Variant ==
  CASE pc = "findDep" -> 2 * matchCount(firstCandidate, node_modules) + 4
    [] pc = "findDep_while" -> 2 * matchCount(start, node_modules) + Len(paths) + 2
    [] pc = "findDep_for" -> Len(paths) - tried + 1
    [] OTHER -> 0

\* C9: every iteration of the climbing loop strictly decreases the number of
\* marker occurrences in the current container, the chain never has more entries
\* than the initial candidate has marker occurrences, and findDep returns: every
\* step it takes decreases a natural number, and it never rejects.
C9_Terminates ==
  /\ [](paths # <<>> => Len(paths) <= matchCount(firstCandidate, node_modules))
  /\ [](pc \in {"findDep", "findDep_while", "findDep_for", "done"} /\ tried <= Len(paths))
  /\ [][(pc = "findDep_while" /\ pc' = "findDep_while")
          => /\ matchCount(start', node_modules) < matchCount(start, node_modules)
             /\ markerComponents(start') < markerComponents(start)]_vars
  /\ [][Variant' < Variant /\ Variant' >= 0]_vars

C9_Witness ==
  /\ pc = "done"
  /\ Len(paths) = 3
  /\ matchCount(firstCandidate, node_modules) = 3
  /\ ret.pkgPath = null

----------------------------------------------------------------------------
(* C10 *)

\* C10 as claimed: the result of findDep has a path exactly when it has a version.
C10_PathIffVersion ==
  pc = "done" => ((ret.pkgPath # null) <=> (ret.version # null /\ ret.version # undefined))

----------------------------------------------------------------------------
(* What the properties of inspect speak of *)

\* findDep read a manifest of ms that it was denied: one with no manifest before it
faultedRead(ms) == \E k \in DOMAIN ms : IsDenied(ms[k]) /\ \A j \in 1..k : j \notin hits(ms)

\* the declared dependency d resolves to a version
Resolves(d) == ~Falsy(Innermost(manifestsFor(d)).version)

\* the range the plugin declares for d
rangeOf(d) == plugin.dependencies[CHOOSE i \in DOMAIN plugin.dependencies :
                                    plugin.dependencies[i].name = d].range

\* the name a dependency node starts with
nameOfNode(label) == split(label, " ")[1]

nodeNames == [i \in DOMAIN tree.dependencies |-> nameOfNode(tree.dependencies[i])]

keysOf(obj) == [i \in DOMAIN obj |-> obj[i].key]

\* the names and command ids of the inputs in ascending order of their characters:
\* "@" (64) precedes "b" (98), "r" (114) precedes "z" (122), "e" (101) precedes "f" (102)
AscendingDeps == <<scoped_bar, bar, baz>>
AscendingCommands == <<<<"e","n","v">>, <<"f","o","o",":","r","u","n">>>>

\* the elements of S, in the order of the sequence ascending
InOrder(ascending, S) == SelectSeq(ascending, LAMBDA x : x \in S)

\* the label of the node of d: name, declared range => version, and the path when verbose
labelOf(d) ==
  LET r == Innermost(manifestsFor(d))
      shown == IF rangeOf(d) = <<>> THEN r.version ELSE rangeOf(d) \o W_arrow \o r.version
  IN IF verbose THEN d \o SP \o shown \o SP \o r.pkgPath ELSE d \o SP \o shown

----------------------------------------------------------------------------
(* C3 *)

\* C3 as claimed: a read that fails with EACCES makes findDep reject, so findDep
\* never returns, and inspect never returns a report, after such a read.
C3_FaultPropagates ==
  /\ pc = "inspect_resume" => ~faultedRead(manifestsFor(dependency))
  /\ pc = "done" => \A d \in Declared : ~faultedRead(manifestsFor(d))

\* C3 amended: a read that fails with EACCES counts as "not found" at that
\* container: findDep goes on with the next container and never rejects, and
\* inspect returns a report that has the dependency from the next container that
\* holds a manifest with a version, and omits it when there is none.
C3_FaultIsNotFound ==
  /\ pc # "rejected"
  /\ (pc = "inspect_resume" /\ faultedRead(manifestsFor(dependency)))
       => ret = Innermost(manifestsFor(dependency))
  /\ pc = "done" =>
       \A d \in Declared : faultedRead(manifestsFor(d)) =>
         IF Resolves(d)
         THEN \E i \in entriesOf(result.deps, d) :
                result.deps[i].value.version = Innermost(manifestsFor(d)).version
         ELSE entriesOf(result.deps, d) = {} /\ nodesOf(d) = {}

C3_Witness ==
  /\ pc = "done"
  /\ plugin.root = plugins_nm_foo
  /\ bar \in Declared
  /\ IsDenied(manifestsFor(bar)[1])
  /\ \E i \in entriesOf(result.deps, bar) : result.deps[i].value.version = V200

----------------------------------------------------------------------------
(* C5 *)

\* C5: for a declared dependency with no readable manifest in any container of
\* the chain, findDep returns no path and no version and does not reject, and the
\* report has no node and no entry for it, while every dependency that resolves
\* to a version has its node and its entry.
C5_AbsentOmitted ==
  /\ pc # "rejected"
  /\ (pc = "inspect_resume" /\ hits(manifestsFor(dependency)) = {})
       => ret = [pkgPath |-> null, version |-> null]
  /\ pc = "done" =>
       \A d \in Declared :
         /\ hits(manifestsFor(d)) = {} => entriesOf(result.deps, d) = {} /\ nodesOf(d) = {}
         /\ Resolves(d) => /\ Cardinality(entriesOf(result.deps, d)) = 1
                           /\ Cardinality(nodesOf(d)) = 1

C5_Witness ==
  /\ pc = "done"
  /\ {bar, baz} \subseteq Declared
  /\ \A k \in DOMAIN manifestsFor(baz) : IsAbsent(manifestsFor(baz)[k])
  /\ entriesOf(result.deps, baz) = {}
  /\ entriesOf(result.deps, bar) # {}

----------------------------------------------------------------------------
(* C6 *)

\* C6: whatever the declaration order, the command leaves, the dependency nodes
\* and the entries of the flat record are in ascending order, so the report
\* depends only on which commands and dependencies there are.
C6_SortedReport ==
  pc # "inspect" =>
    /\ tree.commands = InOrder(AscendingCommands, Elems(plugin.commandIDs))
    /\ nodeNames = InOrder(AscendingDeps, Elems(nodeNames))
    /\ keysOf(depsJson) = InOrder(AscendingDeps, Elems(keysOf(depsJson)))
    /\ pc = "done" =>
         /\ keysOf(result.deps) = InOrder(AscendingDeps, {d \in Declared : Resolves(d)})
         /\ nodeNames = InOrder(AscendingDeps, {d \in Declared : Resolves(d)})

C6_Witness ==
  /\ pc = "done"
  /\ keys(plugin.dependencies) = <<baz, bar>>
  /\ plugin.commandIDs = <<<<"f","o","o",":","r","u","n">>, <<"e","n","v">>>>
  /\ keysOf(result.deps) = <<bar, baz>>
  /\ Len(tree.commands) = 2

----------------------------------------------------------------------------
(* C7 *)

\* C7 as claimed: for every declared dependency that resolves to a version the
\* flat record has an entry with the name, the declared range, the version and
\* the install path that findDep returned.
C7_EntryCarriesPath ==
  pc = "done" =>
    \A d \in Declared : Resolves(d) =>
      \E i \in entriesOf(result.deps, d) :
        /\ result.deps[i].value.from = rangeOf(d)
        /\ result.deps[i].value.version = Innermost(manifestsFor(d)).version
        /\ \E f \in DOMAIN result.deps[i].value :
             result.deps[i].value[f] = Innermost(manifestsFor(d)).pkgPath

\* C7 amended: for every declared dependency for which findDep returns a
\* non-empty version the flat record has one entry, under the dependency's name,
\* with the declared range and that version and nothing else; the install path
\* findDep returned is in the label of the dependency's node when verbose is set.
C7_EntryOfRangeAndVersion ==
  /\ pc = "inspect_resume" => ret = Innermost(manifestsFor(dependency))
  /\ pc = "done" =>
       \A d \in Declared : Resolves(d) =>
         /\ Cardinality(entriesOf(result.deps, d)) = 1
         /\ \A i \in entriesOf(result.deps, d) :
              result.deps[i].value =
                [from |-> rangeOf(d), version |-> Innermost(manifestsFor(d)).version]
         /\ \A i \in nodesOf(d) : tree.dependencies[i] = labelOf(d)

C7_Witness ==
  /\ pc = "done"
  /\ verbose
  /\ plugin.root = plugins_foo
  /\ result.deps = <<[key |-> bar,
                      value |-> [from |-> <<"^","1",".","0",".","0">>, version |-> V120]]>>
  /\ tree.dependencies =
       <<bar \o SP \o <<"^","1",".","0",".","0">> \o W_arrow \o V120 \o SP
           \o plugins_foo \o <<sep>> \o node_modules \o <<sep>> \o bar>>

====
